---- MODULE Spec2Model ----
(***************************************************************************)
(* Model of AnimatedScore (src/src/animated_score.js): the notation layout *)
(* engine (duration decomposition, staff position, clef regions, beam      *)
(* grouping) and the time-driven scrolling viewport.                       *)
(*                                                                         *)
(* Number representation.  The source computes with JavaScript doubles.    *)
(* Every quantity of the model is an integer count of a fixed fraction:    *)
(*   seconds      in 1/8000 s   (noteDuration, VisualNote.duration)        *)
(*   milliseconds in 1/8 ms     (gen.time, timeSinceStart, deltaTime, now) *)
(*   x pixels     in 1/8000 px  (x, toX, dx, canvas width, playerLinePos)  *)
(*   y pixels     in 1/2 px     (y, toY, large)                            *)
(* so "duration * 1000" (s -> ms) maps a count to the same count, and      *)
(* "duration * velocity" (s -> px) and "velocity * deltaTime / 1000"       *)
(* (ms -> px) multiply a count by the velocity.  The inputs of the model   *)
(* (tempos whose 120/tempo is 1/2, 1 or 2, integer velocities, integer     *)
(* millisecond deltas) keep every double of the source exactly             *)
(* representable, so the integer arithmetic is the source's arithmetic.    *)
(***************************************************************************)
EXTENDS Integers, Sequences, FiniteSets, TLC

VARIABLES
    velocity,         \* this.velocity (pixels per second)
    canvasWidth,      \* this.canvas.width
    noteTime,         \* this.noteTime
    visualNotes,      \* this.visualNotes
    quaverSections,   \* this.quaverSections
    noteLines,        \* this.noteLines
    firstLine,        \* this.firstLine
    lastLine,         \* this.lastLine
    currentQuavSect,  \* this.currentQuavSect
    lastSect,         \* this.lastSect
    claviers,         \* this.claviers
    lastClavier,      \* this.lastClavier
    loopID,           \* this.loopID
    status,           \* this.status
    dx,               \* this.dx
    firstNote,        \* this.firstNote
    lastNote,         \* this.lastNote
    timeSinceStart,   \* this.timeSinceStart
    lastTime,         \* this.lastTime
    gen,              \* this.gen
    timers,           \* host: ids of the active setInterval timers
    now,              \* host: performance.now()
    beamGroups,       \* history: one entry per group createQuaverSection emitted
    submissions,      \* history: number of setMusicActions calls with an Array
    lastActions,      \* history: argument of the last setMusicActions call
    arg,              \* input of a direct call of a layout function
    ret               \* result of that call

vars == <<velocity, canvasWidth, noteTime, visualNotes, quaverSections,
          noteLines, firstLine, lastLine, currentQuavSect, lastSect, claviers,
          lastClavier, loopID, status, dx, firstNote, lastNote,
          timeSinceStart, lastTime, gen, timers, now, beamGroups,
          submissions, lastActions, arg, ret>>

----------------------------------------------------------------------------
(* Units *)

Seconds(n64) == n64 * 125          \* n64/64 s in 1/8000 s
Ms(n) == n * 8                     \* n ms in 1/8 ms
Px(n) == n * 8000                  \* n px in 1/8000 px
HalfPx(n) == n * 4000              \* n/2 px in 1/8000 px

Undefined == [type |-> "undefined"]

----------------------------------------------------------------------------
(* Bounds of the model *)

MaxDuration == 130
MaxLen == 3
MaxSubmissions == 2
MaxScroll == 700

----------------------------------------------------------------------------
(* MusicAction values *)

Note(note, octave, duration) ==
    [type |-> "note", note |-> note, octave |-> octave, duration |-> duration]

Tempo(tempo) == [type |-> "tempo", tempo |-> tempo]

Array(items) == [isArray |-> TRUE, items |-> items]

NotAnArray == [isArray |-> FALSE, items |-> <<>>]

----------------------------------------------------------------------------
(* Tables of the constructor *)

scoreDimensions == [height |-> 29, padding |-> 20]

noteDuration ==
    <<Seconds(128), Seconds(64), Seconds(32), Seconds(16), Seconds(8),
      Seconds(4), Seconds(2)>>

noteFraqDuration == <<64, 32, 16, 8, 4, 2, 1>>

noteVerticalPos == <<0, 0, 1, 1, 2, 3, 3, 4, 4, 5, 5, 6>>

imgId ==
    [note1 |-> <<"note-1">>,
     note2 |-> <<"note-2", "note-2t">>,
     note4 |-> <<"note-4", "note-4t">>,
     note8 |-> <<"note-8", "note-8t">>,
     note16 |-> <<"note-16", "note-16t">>,
     note32 |-> <<"note-32", "note-32t">>,
     note64 |-> <<"note-64", "note-64t">>,
     quaverBase |-> <<"note-base">>,
     f_clavier |-> <<"f-clavier">>,
     g_clavier |-> <<"g-clavier">>]

\* this.imgs[name][k]: an index past the end of the array reads undefined
imgs(name, k) ==
    IF k < Len(imgId[name]) THEN imgId[name][k + 1] ELSE "undefined"

NoteSymbol(img, corner, duration) ==
    [img |-> img, corner |-> corner, duration |-> duration]

\* this.noteSymbols[id][variant], id and variant counted from 0
noteSymbols ==
    <<
      <<NoteSymbol(imgs("note1", 0), 6, noteDuration[1]),
        NoteSymbol(imgs("note1", 0), 6, noteDuration[1])>>,
      <<NoteSymbol(imgs("note2", 0), 26, noteDuration[2]),
        NoteSymbol(imgs("note2", 1), 6, noteDuration[2])>>,
      <<NoteSymbol(imgs("note4", 0), 26, noteDuration[3]),
        NoteSymbol(imgs("note4", 1), 6, noteDuration[3])>>,
      <<NoteSymbol(imgs("note8", 0), 26, noteDuration[4]),
        NoteSymbol(imgs("note8", 1), 6, noteDuration[4])>>,
      <<NoteSymbol(imgs("note16", 0), 26, noteDuration[5]),
        NoteSymbol(imgs("note16", 1), 6, noteDuration[5])>>,
      <<NoteSymbol(imgs("note32", 0), 26, noteDuration[6]),
        NoteSymbol(imgs("note32", 5), 6, noteDuration[6])>>,
      <<NoteSymbol(imgs("note64", 0), 26, noteDuration[7]),
        NoteSymbol(imgs("note64", 1), 6, noteDuration[7])>>,
      <<NoteSymbol(imgs("quaverBase", 0), 6, 0),
        NoteSymbol(imgs("quaverBase", 0), 6, 0)>>
    >>

----------------------------------------------------------------------------
(* VisualNote *)

\* 120 / tempo applied to a value: value * (120 / tempo)
TimesTimeFactor(value, tempo) == (value * 120) \div tempo

\* padding + height - verticalPos * 3.5 - corner + 2.5, in half pixels
NoteY(verticalPos, corner) ==
    2 * scoreDimensions.padding + 2 * scoreDimensions.height
    - verticalPos * 7 - 2 * corner + 5

VisualNote(symbol, tempo, verticalPos) ==
    [img |-> symbol.img,
     verticalPos |-> verticalPos,
     x |-> 0,
     y |-> NoteY(verticalPos, symbol.corner),
     duration |-> TimesTimeFactor(symbol.duration, tempo)]

changeSymbol(visualNote, symbol) ==
    [visualNote EXCEPT !.img = symbol.img,
                       !.y = NoteY(visualNote.verticalPos, symbol.corner)]

NoteLine(x, y, large) == [x |-> x, y |-> y, large |-> large]

QuaverSection(x, y, toX, toY) == [x |-> x, y |-> y, toX |-> toX, toY |-> toY]

----------------------------------------------------------------------------
(* getNoteVerticalPos *)

getNoteVerticalPosOctaveOff(note, clavier) ==
    noteVerticalPos[note.note + 1]
    + (CASE clavier = "g" -> -2 + (note.octave - 2) * 7
         [] clavier = "f" -> -4 + (note.octave - 1) * 7
         [] OTHER -> 0)

getNoteVerticalPosSwapped(note, clavier) ==
    noteVerticalPos[note.note + 1]
    + (CASE clavier = "g" -> -4 + (note.octave - 1) * 7
         [] clavier = "f" -> -2 + (note.octave - 3) * 7
         [] OTHER -> 0)

getNoteVerticalPos(note, clavier) ==
    noteVerticalPos[note.note + 1]
    + (CASE clavier = "g" -> -2 + (note.octave - 3) * 7
         [] clavier = "f" -> -4 + (note.octave - 1) * 7
         [] OTHER -> 0)

----------------------------------------------------------------------------
(* createVisualNotes *)

FitsStrict(fraq, r) == fraq < r

\* this.noteFraqDuration[i] <= r
Fits(fraq, r) == fraq <= r

\* the loop over noteFraqDuration, from index i (counted from 0) with
\* remainder r and the ids pushed so far
RECURSIVE symbolIdsLoop(_, _, _)
symbolIdsLoop(i, r, symbolIds) ==
    IF ~(i < Len(noteFraqDuration)) THEN symbolIds
    ELSE IF Fits(noteFraqDuration[i + 1], r)
         THEN IF r - noteFraqDuration[i + 1] = 0
              THEN Append(symbolIds, i)
              ELSE symbolIdsLoop(i + 1, r - noteFraqDuration[i + 1],
                                 Append(symbolIds, i))
         ELSE symbolIdsLoop(i + 1, r, symbolIds)

clavierOfOctaveFour(note) ==
    IF note.note + note.octave * 12 < 12 * 4 THEN "f" ELSE "g"

\* noteID < 12 * 3 selects the F clef
clavierOf(note) ==
    IF note.note + note.octave * 12 < 12 * 3 THEN "f" ELSE "g"

symbolVariantAboveFour(verticalPos) == IF verticalPos > 4 THEN 2 ELSE 1

\* verticalPos > 3 ? this.noteSymbols[id][1] : this.noteSymbols[id][0]
symbolVariant(verticalPos) == IF verticalPos > 3 THEN 2 ELSE 1

\* returns the VisualNote list and the ids selected; g is this.gen
createVisualNotes(note, g) ==
    LET symbolIds == symbolIdsLoop(0, note.duration, <<>>)
        clavier == clavierOf(note)
        verticalPos == getNoteVerticalPos(note, clavier)
        variant == symbolVariant(verticalPos)
    IN  [gen |-> [g EXCEPT !.clavier = clavier],
         symbolIds |-> symbolIds,
         visualNotes |->
            [i \in 1..Len(symbolIds) |->
                VisualNote(noteSymbols[symbolIds[i] + 1][variant],
                           g.currentTempo, verticalPos)]]

----------------------------------------------------------------------------
(* createQuaverSection.  this.gen.quaverSectionElements holds references   *)
(* to objects of this.visualNotes: here, their positions in visualNotes.   *)

TooFewElementsOffByOne(elements) == Len(elements) < 1

\* this.gen.quaverSectionElements.length <= 1
TooFewElements(elements) == Len(elements) <= 1

\* first position (from 0) of the greatest verticalPos among the elements
RECURSIVE majorOf(_, _, _, _, _)
majorOf(notes, elements, i, majorVerticalPos, majorID) ==
    IF i >= Len(elements) THEN [pos |-> majorVerticalPos, id |-> majorID]
    ELSE IF notes[elements[i + 1]].verticalPos > majorVerticalPos
         THEN majorOf(notes, elements, i + 1,
                      notes[elements[i + 1]].verticalPos, i)
         ELSE majorOf(notes, elements, i + 1, majorVerticalPos, majorID)

\* first position (from 0) of the least verticalPos among the elements
RECURSIVE minorOf(_, _, _, _, _)
minorOf(notes, elements, i, minorVerticalPos, minorID) ==
    IF i >= Len(elements) THEN [pos |-> minorVerticalPos, id |-> minorID]
    ELSE IF notes[elements[i + 1]].verticalPos < minorVerticalPos
         THEN minorOf(notes, elements, i + 1,
                      notes[elements[i + 1]].verticalPos, i)
         ELSE minorOf(notes, elements, i + 1, minorVerticalPos, minorID)

\* majorDV / minorDV
distanceV(verticalPos) ==
    IF verticalPos > 3 THEN verticalPos - 4 ELSE 4 - verticalPos

sectionDirectionOfStrict(majorVerticalPos, minorVerticalPos) ==
    IF majorVerticalPos > 3
       /\ distanceV(majorVerticalPos) > distanceV(minorVerticalPos)
    THEN "down" ELSE "up"

sectionDirectionOf(majorVerticalPos, minorVerticalPos) ==
    IF majorVerticalPos > 3
       /\ distanceV(majorVerticalPos) >= distanceV(minorVerticalPos)
    THEN "down" ELSE "up"

coveredByPreviousNever(notes, elements, i, sixteenth) == FALSE

\* the element before i is a sixteenth and the element after i is missing
\* or is not one: the two continue of the secondary pass
coveredByPrevious(notes, elements, i, sixteenth) ==
    /\ i > 0
    /\ notes[elements[i]].duration = sixteenth
    /\ \/ ~(i + 1 < Len(elements))
       \/ notes[elements[i + 2]].duration # sixteenth

\* the second loop of createQuaverSection from element i (from 0):
\* one NoteLine per element and the secondary sections.  out collects
\* noteLines, quaverSections and the elements a secondary section starts at
RECURSIVE sectionLoop(_, _, _, _, _, _, _)
sectionLoop(notes, elements, i, sectionDirection, y, sixteenth, out) ==
    IF i >= Len(elements) THEN out
    ELSE
    LET visualNote == notes[elements[i + 1]]
        ql == Len(elements)
        line == IF sectionDirection = "up"
                THEN NoteLine(visualNote.x + HalfPx(17), visualNote.y,
                              y - visualNote.y)
                ELSE NoteLine(visualNote.x, visualNote.y,
                              -(visualNote.y - y))
        out1 == [out EXCEPT !.noteLines = Append(@, line)]
        skip == coveredByPrevious(notes, elements, i, sixteenth)
        sx == IF sectionDirection = "up" THEN visualNote.x + HalfPx(17)
              ELSE visualNote.x
        sy == IF sectionDirection = "up" THEN y + 8 ELSE y - 8
        out2 ==
            IF visualNote.duration # sixteenth \/ skip THEN out1
            ELSE IF i + 1 < ql
            THEN LET nextNote == notes[elements[i + 2]]
                     sToX == IF nextNote.duration = sixteenth
                             THEN IF sectionDirection = "up"
                                  THEN nextNote.x + HalfPx(17)
                                  ELSE nextNote.x
                             ELSE nextNote.x + HalfPx(17)
                                  - ((nextNote.x - visualNote.x) \div 2)
                 IN  [out1 EXCEPT
                        !.quaverSections =
                            Append(@, QuaverSection(sx, sy, sToX, sy)),
                        !.secondaryAt = Append(@, i)]
            ELSE IF i > 0
            THEN LET prevNote == notes[elements[i]]
                     sToX == visualNote.x + HalfPx(17)
                             - ((visualNote.x - prevNote.x) \div 2)
                 IN  [out1 EXCEPT
                        !.quaverSections =
                            Append(@, QuaverSection(sx, sy, sToX, sy)),
                        !.secondaryAt = Append(@, i)]
            ELSE out1
    IN  sectionLoop(notes, elements, i + 1, sectionDirection, y, sixteenth,
                    out2)

createQuaverSection(t) ==
    LET elements == t.gen.quaverSectionElements IN
    IF TooFewElements(elements) THEN t
    ELSE
    LET major == majorOf(t.visualNotes, elements, 0, -100, 0)
        minor == minorOf(t.visualNotes, elements, 0, 100, 0)
        notes == [k \in 1..Len(t.visualNotes) |->
                    IF \E e \in 1..Len(elements) : elements[e] = k
                    THEN changeSymbol(t.visualNotes[k], noteSymbols[8][1])
                    ELSE t.visualNotes[k]]
        sectionDirection == sectionDirectionOf(major.pos, minor.pos)
        first == notes[elements[1]]
        last == notes[elements[Len(elements)]]
        x == IF sectionDirection = "up" THEN first.x + HalfPx(17) ELSE first.x
        y == IF sectionDirection = "up"
             THEN notes[elements[major.id + 1]].y - 36
             ELSE notes[elements[minor.id + 1]].y + 12 + 36
        toX == IF sectionDirection = "up" THEN last.x + HalfPx(17) ELSE last.x
        primary == Append(t.quaverSections, QuaverSection(x, y, toX, y))
        out == sectionLoop(notes, elements, 0, sectionDirection, y,
                           TimesTimeFactor(noteDuration[5], t.gen.currentTempo),
                           [noteLines |-> t.noteLines,
                            quaverSections |-> primary,
                            secondaryAt |-> <<>>])
    IN  [t EXCEPT
            !.visualNotes = notes,
            !.quaverSections = out.quaverSections,
            !.noteLines = out.noteLines,
            !.beamGroups =
                Append(@, [members |-> elements,
                           direction |-> sectionDirection,
                           tempo |-> t.gen.currentTempo,
                           section |-> Len(primary),
                           secondaryAt |-> out.secondaryAt,
                           line |-> Len(t.noteLines) + 1])]

----------------------------------------------------------------------------
(* registerNote *)

closeQuaverSection(t) ==
    [createQuaverSection(t) EXCEPT
        !.gen.quaverSection = FALSE,
        !.gen.quaverTotalDuration = 0,
        !.gen.quaverSectionElements = <<>>]

sectionLimitTwice(tempo) == TimesTimeFactor(Seconds(128), tempo)

\* 1 * timeFactor: the total duration an open section may reach, in seconds
sectionLimit(tempo) == TimesTimeFactor(Seconds(64), tempo)

mustCloseOnOverflowOnly(changedClavier, total, limit) == total > limit

\* changedClavier || this.gen.quaverTotalDuration > 1 * timeFactor
mustClose(changedClavier, total, limit) == changedClavier \/ total > limit

advanceXNot(x, duration, v) == x

advanceXBackwards(x, duration, v) == x - duration * v

\* this.gen.x += visualNote.duration * this.velocity
advanceX(x, duration, v) == x + duration * v

placeVisualNoteTimeByPixels(t, vn) ==
    [t EXCEPT
        !.noteTime = Append(@, t.gen.time),
        !.gen.time = @ + (vn.duration * t.velocity) \div 100,
        !.gen.x = advanceX(@, vn.duration, t.velocity),
        !.visualNotes = Append(@, [vn EXCEPT !.x = t.gen.x])]

\* the head of the loop body of registerNote: the note's time and x, the
\* advance of gen.time and gen.x, and the push into visualNotes
placeVisualNote(t, vn) ==
    [t EXCEPT
        !.noteTime = Append(@, t.gen.time),
        !.gen.time = @ + vn.duration,
        !.gen.x = advanceX(@, vn.duration, t.velocity),
        !.visualNotes = Append(@, [vn EXCEPT !.x = t.gen.x])]

\* one pass of the loop of registerNote, for the visual note vn
registerVisualNote(t, vn, changedClavier) ==
    LET t1 == placeVisualNote(t, vn)
        ref == Len(t1.visualNotes)
        visualNote == t1.visualNotes[ref]
        quaver == TimesTimeFactor(noteDuration[4], t.gen.currentTempo)
        limit == sectionLimit(t.gen.currentTempo)
        open(s) ==
            IF ~s.gen.quaverSection /\ visualNote.duration <= quaver
            THEN [s EXCEPT
                    !.gen.quaverSection = TRUE,
                    !.gen.quaverTotalDuration = @ + visualNote.duration,
                    !.gen.quaverSectionElements = Append(@, ref)]
            ELSE s
    IN  IF t1.gen.quaverSection
        THEN IF visualNote.duration > quaver
             THEN closeQuaverSection(t1)
             ELSE LET t2 == [t1 EXCEPT !.gen.quaverTotalDuration =
                                            @ + visualNote.duration]
                  IN  IF mustClose(changedClavier,
                                   t2.gen.quaverTotalDuration, limit)
                      THEN open(closeQuaverSection(t2))
                      ELSE open([t2 EXCEPT !.gen.quaverSectionElements =
                                                Append(@, ref)])
        ELSE open(t1)

RECURSIVE registerLoop(_, _, _, _)
registerLoop(t, vn, i, changedClavier) ==
    IF i > Len(vn) THEN t
    ELSE registerLoop(registerVisualNote(t, vn[i], changedClavier), vn, i + 1,
                      changedClavier)

registerNote(t, note) ==
    LET cv == createVisualNotes(note, t.gen)
        t1 == [t EXCEPT !.gen = cv.gen]
        first == Len(t1.claviers) = 0
        changedClavier ==
            ~first /\ t1.claviers[Len(t1.claviers)].clavier # t1.gen.clavier
        t2 == IF first
              THEN [t1 EXCEPT !.claviers =
                        Append(@, [clavier |-> t1.gen.clavier, time |-> 0])]
              ELSE IF changedClavier
              THEN [t1 EXCEPT !.claviers =
                        Append(@, [clavier |-> t1.gen.clavier,
                                   time |-> t1.gen.time])]
              ELSE t1
    IN  registerLoop(t2, cv.visualNotes, 1, changedClavier)

----------------------------------------------------------------------------
(* Visibility checks *)

\* this.noteFirst is never assigned: it reads undefined, which is equal to
\* no array length
noteFirst == -1

reset(t) == [t EXCEPT !.lastTime = 0, !.timeSinceStart = 0]

\* clearInterval(id)
clearInterval(t, id) == [t EXCEPT !.timers = @ \ {id}]

stop(t) == clearInterval(reset([t EXCEPT !.status = "stopped"]), t.loopID)

RECURSIVE lastNoteLoop(_)
lastNoteLoop(t) ==
    IF t.lastNote < Len(t.visualNotes)
       /\ t.visualNotes[t.lastNote + 1].x - t.dx < t.canvasWidth
    THEN lastNoteLoop([t EXCEPT !.lastNote = @ + 1])
    ELSE t

checkNoteVisualization(t) ==
    LET t1 == lastNoteLoop(t) IN
    IF t1.firstNote < t1.lastNote
       /\ t1.visualNotes[t1.firstNote + 1].x - t1.dx < -Px(10)
    THEN LET t2 == [t1 EXCEPT !.firstNote = @ + 1]
         IN  IF noteFirst = Len(t2.visualNotes) THEN stop(t2) ELSE t2
    ELSE t1

checkClavier(t) ==
    IF t.lastClavier < Len(t.claviers) - 1
       /\ t.claviers[t.lastClavier + 2].time < t.timeSinceStart
    THEN [t EXCEPT !.lastClavier = @ + 1]
    ELSE t

RECURSIVE lastLineLoop(_)
lastLineLoop(t) ==
    IF t.lastLine < Len(t.noteLines)
       /\ t.noteLines[t.lastLine + 1].x - t.dx < t.canvasWidth
    THEN lastLineLoop([t EXCEPT !.lastLine = @ + 1])
    ELSE t

checkNoteLine(t) ==
    LET t1 == lastLineLoop(t) IN
    IF t1.firstLine < t1.lastLine
       /\ t1.noteLines[t1.firstLine + 1].x - t1.dx < -Px(10)
    THEN [t1 EXCEPT !.firstLine = @ + 1]
    ELSE t1

\* first loop of checkQuaverSection; lastSect0 is the local copy of lastSect
withinAdmissionsAlways(i, lastSect0) == TRUE

\* i < lastSect + 4, lastSect read before the loop
withinAdmissions(i, lastSect0) == i < lastSect0 + 4

RECURSIVE admitLoop(_, _, _)
admitLoop(t, i, lastSect0) ==
    IF i < Len(t.quaverSections) /\ withinAdmissions(i, lastSect0)
       /\ t.quaverSections[i + 1].x - t.dx < t.canvasWidth
    THEN admitLoop([t EXCEPT
                      !.currentQuavSect = Append(@, t.quaverSections[i + 1]),
                      !.lastSect = @ + 1],
                   i + 1, lastSect0)
    ELSE t

\* second loop of checkQuaverSection: the count toDelete
RECURSIVE toDeleteLoop(_, _)
toDeleteLoop(t, i) ==
    IF i < Len(t.currentQuavSect) /\ i < 4
       /\ t.currentQuavSect[i + 1].toX - t.dx < -Px(10)
    THEN toDeleteLoop(t, i + 1)
    ELSE i

checkQuaverSectionWindowIndex(t) ==
    LET t1 == admitLoop(t, t.lastSect, t.lastSect)
        toDelete == toDeleteLoop(t1, 0)
    IN  [t1 EXCEPT !.currentQuavSect = SubSeq(@, toDelete + 1, Len(@)),
                   !.lastSect = @ - toDelete]

checkQuaverSection(t) ==
    LET t1 == admitLoop(t, t.lastSect, t.lastSect)
        toDelete == toDeleteLoop(t1, 0)
    IN  [t1 EXCEPT !.currentQuavSect =
            SubSeq(@, toDelete + 1, Len(@))]

----------------------------------------------------------------------------
(* Public methods *)

\* setInterval: the host returns an id that no active timer has
setInterval(t) ==
    LET id == CHOOSE n \in 1..(Cardinality(t.timers) + 1) : n \notin t.timers
    IN  [t EXCEPT !.timers = @ \cup {id}, !.loopID = id]

startAlways(t) ==
    setInterval([t EXCEPT !.status = "playing", !.lastTime = t.now])

start(t) ==
    IF t.status # "playing"
    THEN setInterval([t EXCEPT !.status = "playing", !.lastTime = t.now])
    ELSE t

pause(t) == clearInterval([t EXCEPT !.status = "paused"], t.loopID)

newGen(t) ==
    [currentTempo |-> 120,
     time |-> 0,
     x |-> t.canvasWidth \div 2,
     clavier |-> "g",
     quaverSection |-> FALSE,
     quaverTotalDuration |-> 0,
     quaverSectionElements |-> <<>>]

RECURSIVE actionsLoop(_, _, _)
actionsLoop(t, items, i) ==
    IF i > Len(items) THEN t
    ELSE actionsLoop(
            CASE items[i].type = "note" -> registerNote(t, items[i])
              [] items[i].type = "tempo" ->
                    [t EXCEPT !.gen.currentTempo = items[i].tempo]
              [] OTHER -> t,
            items, i + 1)

instanceofArrayAlways(actions) == TRUE

\* actions instanceof Array
instanceofArray(actions) == actions.isArray

setMusicActions(t, actions) ==
    IF ~instanceofArray(actions) THEN [t EXCEPT !.lastActions = actions]
    ELSE
    LET t1 == [t EXCEPT !.gen = newGen(t),
                        !.submissions = @ + 1,
                        !.lastActions = actions]
        t2 == actionsLoop(t1, actions.items, 1)
    IN  checkQuaverSection(checkNoteLine(checkNoteVisualization(t2)))

update(t, currentTime) ==
    LET deltaTime == currentTime - t.lastTime
        t1 == [t EXCEPT !.lastTime = currentTime]
        t2 == checkQuaverSection(checkNoteLine(checkClavier(
                  checkNoteVisualization(t1))))
    IN  [t2 EXCEPT !.dx = @ + t.velocity * deltaTime,
                   !.timeSinceStart = @ + deltaTime]

mainLoop(t, currentTime) == update([t EXCEPT !.now = currentTime], currentTime)

----------------------------------------------------------------------------
(* The instance as one record, and its installation as the next state *)

Self ==
    [velocity |-> velocity, canvasWidth |-> canvasWidth,
     noteTime |-> noteTime, visualNotes |-> visualNotes,
     quaverSections |-> quaverSections, noteLines |-> noteLines,
     firstLine |-> firstLine, lastLine |-> lastLine,
     currentQuavSect |-> currentQuavSect, lastSect |-> lastSect,
     claviers |-> claviers, lastClavier |-> lastClavier,
     loopID |-> loopID, status |-> status, dx |-> dx,
     firstNote |-> firstNote, lastNote |-> lastNote,
     timeSinceStart |-> timeSinceStart, lastTime |-> lastTime,
     gen |-> gen, timers |-> timers, now |-> now,
     beamGroups |-> beamGroups, submissions |-> submissions,
     lastActions |-> lastActions]

Becomes(t) ==
    /\ velocity' = t.velocity
    /\ canvasWidth' = t.canvasWidth
    /\ noteTime' = t.noteTime
    /\ visualNotes' = t.visualNotes
    /\ quaverSections' = t.quaverSections
    /\ noteLines' = t.noteLines
    /\ firstLine' = t.firstLine
    /\ lastLine' = t.lastLine
    /\ currentQuavSect' = t.currentQuavSect
    /\ lastSect' = t.lastSect
    /\ claviers' = t.claviers
    /\ lastClavier' = t.lastClavier
    /\ loopID' = t.loopID
    /\ status' = t.status
    /\ dx' = t.dx
    /\ firstNote' = t.firstNote
    /\ lastNote' = t.lastNote
    /\ timeSinceStart' = t.timeSinceStart
    /\ lastTime' = t.lastTime
    /\ gen' = t.gen
    /\ timers' = t.timers
    /\ now' = t.now
    /\ beamGroups' = t.beamGroups
    /\ submissions' = t.submissions
    /\ lastActions' = t.lastActions

\* the instance the constructor leaves, for a playingVelocity and a
\* container width
Constructed(playingVelocity, width) ==
    [velocity |-> playingVelocity, canvasWidth |-> width,
     noteTime |-> <<>>, visualNotes |-> <<>>,
     quaverSections |-> <<>>, noteLines |-> <<>>,
     firstLine |-> 0, lastLine |-> 0,
     currentQuavSect |-> <<>>, lastSect |-> 0,
     claviers |-> <<>>, lastClavier |-> 0,
     loopID |-> 0, status |-> "stopped", dx |-> 0,
     firstNote |-> 0, lastNote |-> 0,
     timeSinceStart |-> 0, lastTime |-> 0,
     gen |-> Undefined, timers |-> {}, now |-> 0,
     beamGroups |-> <<>>, submissions |-> 0,
     lastActions |-> Undefined]

Is(t) ==
    /\ velocity = t.velocity
    /\ canvasWidth = t.canvasWidth
    /\ noteTime = t.noteTime
    /\ visualNotes = t.visualNotes
    /\ quaverSections = t.quaverSections
    /\ noteLines = t.noteLines
    /\ firstLine = t.firstLine
    /\ lastLine = t.lastLine
    /\ currentQuavSect = t.currentQuavSect
    /\ lastSect = t.lastSect
    /\ claviers = t.claviers
    /\ lastClavier = t.lastClavier
    /\ loopID = t.loopID
    /\ status = t.status
    /\ dx = t.dx
    /\ firstNote = t.firstNote
    /\ lastNote = t.lastNote
    /\ timeSinceStart = t.timeSinceStart
    /\ lastTime = t.lastTime
    /\ gen = t.gen
    /\ timers = t.timers
    /\ now = t.now
    /\ beamGroups = t.beamGroups
    /\ submissions = t.submissions
    /\ lastActions = t.lastActions

----------------------------------------------------------------------------
(* Inputs *)

Velocities == {100, 200}

CanvasWidths == {Px(200)}

DeltaTimes == {Ms(250), Ms(1000)}

Tempos == {60, 240}

Pitches == {<<0, 3>>, <<11, 3>>, <<0, 2>>}

Durations == {4, 8, 12, 16}

NoteActions == {Note(p[1], p[2], d) : p \in Pitches, d \in Durations}

MusicActions == NoteActions \cup {Tempo(b) : b \in Tempos}

ListsOfLength(n) == [1..n -> MusicActions]

\* the example of the README
ReadmeActions ==
    Array(<<Tempo(60), Note(0, 3, 16), Note(2, 3, 16), Note(4, 3, 16)>>)

\* five quavers and a crotchet
QuaverRun ==
    Array(<<Note(0, 3, 8), Note(2, 3, 8), Note(4, 3, 8), Note(2, 3, 8),
            Note(0, 3, 8), Note(0, 3, 16)>>)

ActionLists ==
    {Array(l) : l \in UNION {ListsOfLength(n) : n \in 0..MaxLen}}
    \cup {ReadmeActions, QuaverRun, NotAnArray}

ResubmitLists ==
    {Array(<<Note(0, 3, 16)>>),
     Array(<<Note(0, 2, 8), Note(0, 2, 8), Note(0, 3, 16)>>),
     NotAnArray}

PlayLists ==
    {ReadmeActions,
     Array(<<Note(0, 3, 8), Note(11, 3, 8), Note(0, 2, 4), Note(0, 2, 4),
             Note(0, 3, 16), Note(0, 3, 12), Note(0, 3, 32)>>),
     Array(<<Note(0, 3, 4), Note(2, 3, 4), Note(4, 3, 4), Note(2, 3, 4),
             Note(0, 3, 4), Note(0, 3, 16)>>),
     NotAnArray}

\* the lists submitted again during playback
ReplayLists == {ReadmeActions, NotAnArray}

AllNotes == {Note(n, o, d) : n \in 0..11, o \in 0..6, d \in 1..MaxDuration}

----------------------------------------------------------------------------
(* Actions *)

Init ==
    /\ \E v \in Velocities, w \in CanvasWidths : Is(Constructed(v, w))
    /\ arg = Undefined
    /\ ret = Undefined

SetMusicActions(inputs) ==
    /\ submissions < MaxSubmissions
    /\ \E actions \in inputs : Becomes(setMusicActions(Self, actions))
    /\ UNCHANGED <<arg, ret>>

Start ==
    /\ Becomes(start(Self))
    /\ UNCHANGED <<arg, ret>>

Pause ==
    /\ Becomes(pause(Self))
    /\ UNCHANGED <<arg, ret>>

Stop ==
    /\ Becomes(stop(Self))
    /\ UNCHANGED <<arg, ret>>

\* a timer fires deltaTime after the last tick or start
Tick ==
    /\ timers # {}
    /\ \E deltaTime \in DeltaTimes :
        /\ dx + velocity * deltaTime <= Px(MaxScroll)
        /\ Becomes(mainLoop(Self, now + deltaTime))
    /\ UNCHANGED <<arg, ret>>

Next ==
    \/ SetMusicActions(IF submissions = 0 THEN PlayLists ELSE ReplayLists)
    \/ Start
    \/ Pause
    \/ Stop
    \/ Tick

Spec == Init /\ [][Next]_vars

(* Sequencing alone: a first submission of any bounded list, then           *)
(* resubmissions                                                          *)
NextSeq ==
    SetMusicActions(IF submissions = 0 THEN ActionLists ELSE ResubmitLists)

SpecSeq == Init /\ [][NextSeq]_vars

(* Direct calls of the layout functions *)
InitPure ==
    /\ Is(Constructed(200, Px(200)))
    /\ arg \in [note : AllNotes, clavier : {"g", "f"}]
    /\ ret = Undefined

CallGetNoteVerticalPos ==
    /\ ret = Undefined
    /\ ret' = [type |-> "getNoteVerticalPos",
               value |-> getNoteVerticalPos(arg.note, arg.clavier)]
    /\ UNCHANGED <<arg>>
    /\ Becomes(Self)

CallCreateVisualNotes ==
    /\ ret = Undefined
    /\ ret' = [type |-> "createVisualNotes",
               value |-> createVisualNotes(arg.note, newGen(Self))]
    /\ UNCHANGED <<arg>>
    /\ Becomes(Self)

NextPure == CallGetNoteVerticalPos \/ CallCreateVisualNotes

SpecPure == InitPure /\ [][NextPure]_vars

----------------------------------------------------------------------------
(* Properties *)

RECURSIVE SumSeq(_)
SumSeq(q) == IF q = <<>> THEN 0 ELSE Head(q) + SumSeq(Tail(q))

\* C1: stop() in any reachable state leaves timeSinceStart = 0 and every
\* visibility cursor at its initial position: firstNote = lastNote = 0,
\* firstLine = lastLine = 0, the beam-segment window empty with admission
\* index 0, and the clef-region index 0.
C1_StopRewindsCursors ==
    [][Stop => /\ timeSinceStart' = 0
               /\ firstNote' = 0 /\ lastNote' = 0
               /\ firstLine' = 0 /\ lastLine' = 0
               /\ currentQuavSect' = <<>> /\ lastSect' = 0
               /\ lastClavier' = 0]_vars

\* the list is exactly two notes of duration 8 in the same clef
TwoQuaversSameClavier(actions) ==
    /\ actions.isArray
    /\ Len(actions.items) = 2
    /\ \A i \in 1..2 : /\ actions.items[i].type = "note"
                       /\ actions.items[i].duration = 8
    /\ clavierOf(actions.items[1]) = clavierOf(actions.items[2])

\* C2: a list of exactly two consecutive notes of duration 8 in the same
\* clef, submitted to a fresh instance, produces exactly one beam group of
\* size 2: one primary beam segment, two stems, no secondary segment.
C2_TwoQuaversOneBeamGroup ==
    (submissions = 1 /\ TwoQuaversSameClavier(lastActions)) =>
        /\ Len(beamGroups) = 1
        /\ Len(beamGroups[1].members) = 2
        /\ Len(quaverSections) = 1
        /\ Len(noteLines) = 2

\* the duration classes of the ids createVisualNotes selected
ClassesOf(symbolIds) ==
    [i \in 1..Len(symbolIds) |-> noteFraqDuration[symbolIds[i] + 1]]

\* the classes are drawn from {64,32,16,8,4,2,1}, strictly decreasing, sum
\* to D, and there is one VisualNote per class, of that class's duration
DecomposesExactly(result, D) ==
    LET classes == ClassesOf(result.symbolIds) IN
    /\ \A i \in 1..Len(classes) : classes[i] \in {64, 32, 16, 8, 4, 2, 1}
    /\ \A i \in 1..(Len(classes) - 1) : classes[i] > classes[i + 1]
    /\ SumSeq(classes) = D
    /\ Len(result.visualNotes) = Len(classes)
    /\ \A i \in 1..Len(classes) :
            result.visualNotes[i].duration = Seconds(2 * classes[i])

C4_GroupsHaveTwoMembers ==
    /\ \A k \in 1..Len(beamGroups) : Len(beamGroups[k].members) >= 2
    /\ Len(noteLines) =
        SumSeq([k \in 1..Len(beamGroups) |-> Len(beamGroups[k].members)])
    /\ Len(quaverSections) =
        SumSeq([k \in 1..Len(beamGroups) |->
                    1 + Len(beamGroups[k].secondaryAt)])

InSomeGroup(n) ==
    \E k \in 1..Len(beamGroups) :
        \E m \in 1..Len(beamGroups[k].members) : beamGroups[k].members[m] = n

\* a group of two was emitted, and a lone quaver between two crotchets was
\* closed without geometry
C4_Witness ==
    /\ \E k \in 1..Len(beamGroups) : Len(beamGroups[k].members) = 2
    /\ \E n \in 2..(Len(visualNotes) - 1) :
        /\ visualNotes[n].duration = noteDuration[4]
        /\ visualNotes[n - 1].duration = noteDuration[3]
        /\ visualNotes[n + 1].duration = noteDuration[3]
        /\ ~InSomeGroup(n)

\* C5: for a positive playingVelocity and a list of positive durations and
\* tempos submitted to a fresh instance, the x coordinates of visualNotes
\* are non-decreasing in list order.
C5_XNonDecreasing ==
    submissions = 1 =>
        \A i \in 1..(Len(visualNotes) - 1) :
            visualNotes[i].x <= visualNotes[i + 1].x

C5_Witness ==
    /\ submissions = 1
    /\ velocity > 0
    /\ Len(visualNotes) >= 4
    /\ visualNotes[1].x < visualNotes[Len(visualNotes)].x
    /\ \E i \in 1..Len(lastActions.items) :
            lastActions.items[i].type = "tempo"

\* C6: the README list [Tempo(60), Note(0,3,16), Note(2,3,16), Note(4,3,16)]
\* submitted to a fresh instance produces exactly 3 VisualNotes, each the
\* crotchet, a single clef region which is the G clef, strictly increasing
\* x, and no beam group (no beam segment and no stem).
C6_ReadmeExample ==
    (submissions = 1 /\ lastActions = ReadmeActions) =>
        /\ Len(visualNotes) = 3
        /\ \A i \in 1..3 : /\ visualNotes[i].img = "note-4"
                           /\ visualNotes[i].duration = Seconds(64)
        /\ claviers = <<[clavier |-> "g", time |-> 0]>>
        /\ visualNotes[1].x < visualNotes[2].x
        /\ visualNotes[2].x < visualNotes[3].x
        /\ beamGroups = <<>>
        /\ quaverSections = <<>>
        /\ noteLines = <<>>

C6_Witness ==
    /\ submissions = 1
    /\ lastActions = ReadmeActions
    /\ Len(visualNotes) = 3
    /\ lastNote >= 1

\* C7: after setMusicActions(A) followed by setMusicActions(B) the note
\* list, clef regions, stems and beam segments are exactly those that
\* setMusicActions(B) alone produces on a fresh instance.
C7_ResubmissionRebuilds ==
    (submissions >= 1 /\ lastActions.isArray) =>
        LET alone == setMusicActions(Constructed(velocity, canvasWidth),
                                     lastActions)
        IN  /\ visualNotes = alone.visualNotes
            /\ claviers = alone.claviers
            /\ noteLines = alone.noteLines
            /\ quaverSections = alone.quaverSections

\* C8: after any number of submissions the clef-region list has strictly
\* increasing activation times.
C8_ClavierTimesIncrease ==
    \A i \in 1..(Len(claviers) - 1) : claviers[i].time < claviers[i + 1].time

\* getNoteVerticalPos was called for pitch class 0, octave 1, F clef
CalledForBassC1 ==
    /\ ret.type = "getNoteVerticalPos"
    /\ arg.note.note = 0
    /\ arg.note.octave = 1
    /\ arg.clavier = "f"

\* C9 as stated: the vertical position of pitch class 0, octave 1 under the
\* F clef is -8.
C9_BassC1IsMinus8 == CalledForBassC1 => ret.value = -8

\* C9 amended: the vertical position of pitch class 0, octave 1 under the
\* F clef is -4.
C9_BassC1IsMinus4 == CalledForBassC1 => ret.value = -4

C9_Witness == CalledForBassC1 /\ arg.note.duration = 1

\* C10: getNoteVerticalPos returns table[pitchClass] + (-2 + (octave-3)*7)
\* under the G clef and table[pitchClass] + (-4 + (octave-1)*7) under the F
\* clef, table = [0,0,1,1,2,3,3,4,4,5,5,6]; (0,3,G) gives -2; the result is
\* a function of pitch class, octave and clef alone.
C10_VerticalPosFormula ==
    ret.type = "getNoteVerticalPos" =>
        LET table == <<0, 0, 1, 1, 2, 3, 3, 4, 4, 5, 5, 6>>
            n == arg.note.note
            o == arg.note.octave
        IN  /\ arg.clavier = "g" =>
                    ret.value = table[n + 1] + (-2 + (o - 3) * 7)
            /\ arg.clavier = "f" =>
                    ret.value = table[n + 1] + (-4 + (o - 1) * 7)
            /\ (n = 0 /\ o = 3 /\ arg.clavier = "g") => ret.value = -2

C10_Witness ==
    /\ ret.type = "getNoteVerticalPos"
    /\ arg.note.note = 0 /\ arg.note.octave = 3 /\ arg.clavier = "g"
    /\ ret.value = -2

----------------------------------------------------------------------------
(* Playback control *)

\* C11: the status changes only along stopped -> playing on start(),
\* playing -> paused on pause(), paused -> playing on start(), and
\* playing -> stopped, paused -> stopped on stop(); every other call in
\* every other state leaves the status unchanged.
C11_StatusTransitions ==
    [][status' # status =>
        \/ status = "stopped" /\ status' = "playing" /\ Start
        \/ status = "playing" /\ status' = "paused" /\ Pause
        \/ status = "paused" /\ status' = "playing" /\ Start
        \/ status = "playing" /\ status' = "stopped" /\ Stop
        \/ status = "paused" /\ status' = "stopped" /\ Stop]_vars

\* C12: start() while playing changes nothing; at most one tick timer is
\* active, one is active exactly when the status is playing (so that no
\* tick is dispatched between pause() or stop() and the next start()), and
\* the active timer is the one loopID names.
C12_OneTimerWhilePlaying ==
    /\ status = "playing" => start(Self) = Self
    /\ Cardinality(timers) <= 1
    /\ timers # {} <=> status = "playing"
    /\ timers \subseteq {loopID}

\* playing again after a stop(), with a tick dispatched since
C12_Witness ==
    /\ status = "playing"
    /\ timers = {loopID}
    /\ timeSinceStart > 0
    /\ timeSinceStart < now

\* C13: playback stops by itself: the tick whose visibility check brings
\* firstNote to the number of notes (firstNote = lastNote = all notes
\* scrolled past) leaves the status stopped, without a stop() of the host.
C13_AutoStop ==
    [][(Tick /\ firstNote' # firstNote /\ firstNote' = Len(visualNotes'))
            => (lastNote' = Len(visualNotes') /\ status' = "stopped")]_vars

\* C14: setMusicActions with a value that is not an Array changes nothing:
\* notes, clef regions, stems, beam segments, generation state, visibility
\* cursors and playback status are what they were (only the record of the
\* last argument, which is not program state, differs).
C14_NonArrayIgnored ==
    [setMusicActions(Self, NotAnArray) EXCEPT !.lastActions = lastActions]
        = Self

\* a non-Array was submitted during playback, after notes were registered
C14_Witness ==
    /\ lastActions = NotAnArray
    /\ submissions >= 1
    /\ Len(visualNotes) > 0
    /\ lastNote > 0
    /\ status = "playing"

----------------------------------------------------------------------------
(* Layout *)

\* C15: two instances that differ only in playingVelocity, given the same
\* action list, produce the same number of VisualNotes with the same
\* durations (and glyphs and vertical positions), the same note start times,
\* the same clef regions with the same activation times, and the same beam
\* groups with the same members; only x coordinates differ.
C15_VelocityOnlySpacing ==
    (submissions = 1 /\ lastActions.isArray) =>
        \A v \in Velocities :
            LET other == setMusicActions(Constructed(v, canvasWidth),
                                         lastActions)
            IN  /\ Len(other.visualNotes) = Len(visualNotes)
                /\ \A i \in 1..Len(visualNotes) :
                        other.visualNotes[i] =
                            [visualNotes[i] EXCEPT !.x = other.visualNotes[i].x]
                /\ other.noteTime = noteTime
                /\ other.claviers = claviers
                /\ other.beamGroups = beamGroups

\* a list with a beam group and a clef change, laid out at 100 px/s, whose
\* x coordinates at 200 px/s are different
C15_Witness ==
    /\ submissions = 1
    /\ lastActions.isArray
    /\ velocity = 100
    /\ Len(beamGroups) >= 1
    /\ Len(claviers) >= 2
    /\ setMusicActions(Constructed(200, canvasWidth), lastActions).visualNotes
            # visualNotes

\* the number of VisualNotes the k-th action of the list produces
NotesOfAction(items, k) ==
    IF items[k].type = "note"
    THEN Len(symbolIdsLoop(0, items[k].duration, <<>>))
    ELSE 0

\* the positions in visualNotes of the notes the k-th action produced, when
\* the list was submitted to a fresh instance
RangeOfAction(items, k) ==
    LET before == SumSeq([j \in 1..(k - 1) |-> NotesOfAction(items, j)])
    IN  (before + 1)..(before + NotesOfAction(items, k))

\* C16: all VisualNotes produced by decomposing one note action (24 = 16 + 8)
\* have the same vertical position and the same x.
C16_SameEventSamePosAndX ==
    (submissions = 1 /\ lastActions.isArray) =>
        \A k \in 1..Len(lastActions.items) :
            \A i, j \in RangeOfAction(lastActions.items, k) :
                /\ visualNotes[i].verticalPos = visualNotes[j].verticalPos
                /\ visualNotes[i].x = visualNotes[j].x

\* C16 amended: all VisualNotes produced by decomposing one note action have
\* the same vertical position, and each is placed to the right of the one
\* before it, at that one's x plus its duration times the velocity.
C16_SameEventSamePosSuccessiveX ==
    (submissions = 1 /\ lastActions.isArray) =>
        \A k \in 1..Len(lastActions.items) :
            \A i, j \in RangeOfAction(lastActions.items, k) :
                /\ visualNotes[i].verticalPos = visualNotes[j].verticalPos
                /\ j = i + 1 =>
                        /\ visualNotes[j].x > visualNotes[i].x
                        /\ visualNotes[j].x =
                            visualNotes[i].x + visualNotes[i].duration * velocity

\* a list whose second action, of duration 12 = 8 + 4, gave two VisualNotes
C16_Witness ==
    /\ submissions = 1
    /\ lastActions.isArray
    /\ Len(lastActions.items) >= 2
    /\ lastActions.items[2].type = "note"
    /\ lastActions.items[2].duration = 12
    /\ Cardinality(RangeOfAction(lastActions.items, 2)) = 2
    /\ Len(visualNotes) >= 2

\* every VisualNote of the result is drawn with the second (flipped) entry
\* of its symbol's pair when its vertical position is above the boundary,
\* and with the first entry otherwise
VariantsSplitAbove(result, boundary) ==
    \A i \in 1..Len(result.visualNotes) :
        LET vn == result.visualNotes[i]
            pair == noteSymbols[result.symbolIds[i] + 1]
            symbol == IF vn.verticalPos > boundary THEN pair[2] ELSE pair[1]
        IN  /\ vn.img = symbol.img
            /\ vn.y = NoteY(vn.verticalPos, symbol.corner)

\* C17: createVisualNotes takes the flipped variant of a glyph exactly when
\* verticalPos > 4 and the normal variant when verticalPos <= 4.
C17_FlippedAboveFour ==
    ret.type = "createVisualNotes" => VariantsSplitAbove(ret.value, 4)

\* C17 amended: createVisualNotes takes the flipped variant of a glyph
\* exactly when verticalPos > 3 and the normal variant when verticalPos <= 3.
C17_FlippedAboveThree ==
    ret.type = "createVisualNotes" => VariantsSplitAbove(ret.value, 3)

\* a crotchet on vertical position 4 (B of octave 3 under the G clef), drawn
\* with the flipped glyph
C17_Witness ==
    /\ ret.type = "createVisualNotes"
    /\ arg.note.duration = 16
    /\ Len(ret.value.visualNotes) = 1
    /\ ret.value.visualNotes[1].verticalPos = 4
    /\ ret.value.visualNotes[1].img = noteSymbols[3][2].img
    /\ noteSymbols[3][2].img # noteSymbols[3][1].img

----------------------------------------------------------------------------
(* Visibility cursors *)

\* C18: when the visibility check of a tick has finished, either firstNote =
\* lastNote or the note at firstNote has x - dx >= -10 for the dx the check
\* used (the dx before the tick's advance); the same for firstLine over the
\* stems.
C18_FirstCursorsCaughtUp ==
    [][Tick =>
        /\ \/ firstNote' = lastNote'
           \/ visualNotes'[firstNote' + 1].x - dx >= -Px(10)
        /\ \/ firstLine' = lastLine'
           \/ noteLines'[firstLine' + 1].x - dx >= -Px(10)]_vars

\* C19: in every reachable state the window currentQuavSect holds at most
\* 4 beam segments.
C19_WindowAtMostFour == Len(currentQuavSect) <= 4

\* C19 amended: the window may hold more than 4 segments; what is at most 4
\* is the number of segments one visibility check (one submission or one
\* tick) admits into the window and the number it retires from it.
C19_AtMostFourPerCheck ==
    [][LET admitted == lastSect' - lastSect
           retired == Len(currentQuavSect) + admitted - Len(currentQuavSect')
       IN  /\ admitted \in 0..4
           /\ retired \in 0..4]_vars

\* five segments of one beam group on screen during playback, after a
\* single submission
C19_Witness ==
    /\ submissions = 1
    /\ Len(currentQuavSect) > 4
    /\ lastSect > 4
    /\ status = "playing"

\* C20: across ticks, pause() and start() the cursors firstNote, lastNote,
\* firstLine, lastLine, lastSect and lastClavier never decrease, and every
\* reachable state has 0 <= firstNote <= lastNote <= number of notes and
\* 0 <= firstLine <= lastLine <= number of stems.
C20_CursorsMonotoneAndOrdered ==
    /\ [](/\ 0 <= firstNote /\ firstNote <= lastNote
          /\ lastNote <= Len(visualNotes)
          /\ 0 <= firstLine /\ firstLine <= lastLine
          /\ lastLine <= Len(noteLines))
    /\ [][(Tick \/ Pause \/ Start) =>
            /\ firstNote' >= firstNote /\ lastNote' >= lastNote
            /\ firstLine' >= firstLine /\ lastLine' >= lastLine
            /\ lastSect' >= lastSect /\ lastClavier' >= lastClavier]_vars

\* paused after ticks that moved every cursor
C20_Witness ==
    /\ status = "paused"
    /\ firstNote >= 2 /\ lastNote > firstNote
    /\ firstLine >= 1 /\ lastLine > firstLine
    /\ lastSect >= 2
    /\ lastClavier >= 1

----------------------------------------------------------------------------
(* Beam groups *)

\* every tempo action of the list comes before its first note
ConstantTempo(items) ==
    \A k \in 1..Len(items) :
        items[k].type = "tempo" => \A j \in 1..k : items[j].type = "tempo"

\* the sum of the durations of the members of a group, in seconds
MembersDuration(group) ==
    SumSeq([m \in 1..Len(group.members) |->
                visualNotes[group.members[m]].duration])

\* C21: at constant tempo no emitted beam group has members whose durations
\* sum to more than one quarter note (16 sixty-fourth units).
C21_GroupWithinOneQuarter ==
    (submissions = 1 /\ lastActions.isArray
            /\ ConstantTempo(lastActions.items)) =>
        \A k \in 1..Len(beamGroups) :
            MembersDuration(beamGroups[k])
                <= TimesTimeFactor(16 * noteDuration[7], beamGroups[k].tempo)

\* C21 amended: at constant tempo no emitted beam group has members whose
\* durations sum to more than two quarter notes (32 sixty-fourth units, one
\* second at tempo 120).
C21_GroupWithinTwoQuarters ==
    (submissions = 1 /\ lastActions.isArray
            /\ ConstantTempo(lastActions.items)) =>
        \A k \in 1..Len(beamGroups) :
            MembersDuration(beamGroups[k])
                <= TimesTimeFactor(32 * noteDuration[7], beamGroups[k].tempo)

\* four quavers beamed together, the group closed by a fifth that would
\* have taken it over the limit
C21_Witness ==
    /\ submissions = 1
    /\ lastActions = QuaverRun
    /\ Len(beamGroups) = 1
    /\ Len(beamGroups[1].members) = 4
    /\ MembersDuration(beamGroups[1])
            = TimesTimeFactor(32 * noteDuration[7], beamGroups[1].tempo)

\* the duration class (in sixty-fourths) of the n-th VisualNote that the
\* list produced on a fresh instance
ClassOfNote(items, n) ==
    LET k == CHOOSE a \in 1..Len(items) : n \in RangeOfAction(items, a)
        before == SumSeq([j \in 1..(k - 1) |-> NotesOfAction(items, j)])
    IN  ClassesOf(symbolIdsLoop(0, items[k].duration, <<>>))[n - before]

\* the duration classes of the members of a group
MemberClasses(items, group) ==
    [m \in 1..Len(group.members) |-> ClassOfNote(items, group.members[m])]

\* C22: for every action list, tempo changes inside an open group included,
\* a secondary beam segment starts only at a member whose duration class is
\* the sixteenth note (4), and a group without such a member has its primary
\* segment only.
C22_SecondaryOnlyAtSixteenths ==
    (submissions = 1 /\ lastActions.isArray) =>
        \A k \in 1..Len(beamGroups) :
            LET group == beamGroups[k]
                classes == MemberClasses(lastActions.items, group)
            IN  /\ \A j \in 1..Len(group.secondaryAt) :
                        classes[group.secondaryAt[j] + 1] = 4
                /\ (\A m \in 1..Len(classes) : classes[m] # 4) =>
                        group.secondaryAt = <<>>

\* the vertical positions of the members of a group
MemberPositions(group) ==
    {visualNotes[group.members[m]].verticalPos :
        m \in 1..Len(group.members)}

\* C23: with majorPos and minorPos the highest and the lowest vertical
\* position among the members of a group and dist(p) = p - 4 if p > 3 else
\* 4 - p, the direction is down iff majorPos > 3 and dist(majorPos) >=
\* dist(minorPos), otherwise up; going up the primary beam lies above every
\* member's note head (smaller y), going down below every one; and every
\* member's stem starts at its note head and ends exactly at the y of the
\* primary beam.
C23_DirectionAndStems ==
    \A k \in 1..Len(beamGroups) :
        LET group == beamGroups[k]
            positions == MemberPositions(group)
            majorPos == CHOOSE p \in positions : \A q \in positions : q <= p
            minorPos == CHOOSE p \in positions : \A q \in positions : p <= q
            dist(p) == IF p > 3 THEN p - 4 ELSE 4 - p
            beam == quaverSections[group.section]
        IN  /\ group.direction = "down" <=>
                    (majorPos > 3 /\ dist(majorPos) >= dist(minorPos))
            /\ group.direction \in {"down", "up"}
            /\ beam.toY = beam.y
            /\ \A m \in 1..Len(group.members) :
                    LET head == visualNotes[group.members[m]]
                        stem == noteLines[group.line + m - 1]
                    IN  /\ group.direction = "up" => beam.y < head.y
                        /\ group.direction = "down" => beam.y > head.y
                        /\ stem.y = head.y
                        /\ stem.y + stem.large = beam.y

\* a group going up and a group going down whose highest and lowest members
\* are equally far from position 4
C23_Witness ==
    \E k, n \in 1..Len(beamGroups) :
        /\ beamGroups[k].direction = "up"
        /\ beamGroups[n].direction = "down"
        /\ MemberPositions(beamGroups[n]) = {4}
        /\ Len(noteLines) >= 4

\* C24: in a group emitted at constant tempo every member of the sixteenth
\* class is touched by a secondary segment (one starts at it, or one that
\* starts at the sixteenth before it reaches it), and the number of
\* secondary segments is the number of adjacent pairs of sixteenths plus the
\* number of sixteenths without a sixteenth neighbour in the group.
C24_SecondaryCoverage ==
    (submissions = 1 /\ lastActions.isArray
            /\ ConstantTempo(lastActions.items)) =>
        \A k \in 1..Len(beamGroups) :
            LET group == beamGroups[k]
                classes == MemberClasses(lastActions.items, group)
                n == Len(classes)
                starts == {group.secondaryAt[j] + 1 :
                                j \in 1..Len(group.secondaryAt)}
                pairs == {m \in 1..(n - 1) :
                                classes[m] = 4 /\ classes[m + 1] = 4}
                alone == {m \in 1..n :
                                /\ classes[m] = 4
                                /\ (m = 1 \/ classes[m - 1] # 4)
                                /\ (m = n \/ classes[m + 1] # 4)}
            IN  /\ \A m \in 1..n :
                        classes[m] = 4 =>
                            \/ m \in starts
                            \/ m > 1 /\ classes[m - 1] = 4
                                     /\ (m - 1) \in starts
                /\ Len(group.secondaryAt)
                        = Cardinality(pairs) + Cardinality(alone)
                /\ Cardinality(starts) = Len(group.secondaryAt)

\* a quaver followed by two sixteenths: one secondary segment, which joins
\* the pair
C24_Witness ==
    /\ submissions = 1
    /\ lastActions.isArray
    /\ ConstantTempo(lastActions.items)
    /\ \E k \in 1..Len(beamGroups) :
            LET classes == MemberClasses(lastActions.items, beamGroups[k])
            IN  /\ Len(classes) >= 3
                /\ classes[Len(classes)] = 4
                /\ classes[Len(classes) - 1] = 4
                /\ classes[1] = 8
                /\ Len(beamGroups[k].secondaryAt) = 1

\* the action of the list that produced the n-th VisualNote
ActionOfNote(items, n) ==
    items[CHOOSE a \in 1..Len(items) : n \in RangeOfAction(items, a)]

\* C25: the members of an emitted group are consecutive entries of the note
\* list, were all registered under the same clef (F for a pitch below C of
\* octave 3, G otherwise), and none is longer than an eighth.
C25_GroupsContiguousOneClef ==
    (submissions = 1 /\ lastActions.isArray) =>
        \A k \in 1..Len(beamGroups) :
            LET members == beamGroups[k].members
                bass(n) ==
                    LET note == ActionOfNote(lastActions.items, n)
                    IN  note.note + 12 * note.octave < 36
            IN  /\ \A m \in 1..(Len(members) - 1) :
                        members[m + 1] = members[m] + 1
                /\ \A m, q \in 1..Len(members) :
                        bass(members[m]) = bass(members[q])
                /\ \A m \in 1..Len(members) :
                        ClassOfNote(lastActions.items, members[m]) <= 8

\* a group that a clef change closed: the note after its last member is in
\* the other clef
C25_Witness ==
    /\ submissions = 1
    /\ lastActions.isArray
    /\ \E k \in 1..Len(beamGroups) :
            LET members == beamGroups[k].members
                last == members[Len(members)]
            IN  /\ last < Len(visualNotes)
                /\ ActionOfNote(lastActions.items, last).octave = 3
                /\ ActionOfNote(lastActions.items, last + 1).octave = 2
                /\ ClassOfNote(lastActions.items, last + 1) <= 8

----------------------------------------------------------------------------
(* Scroll and clock *)

\* C26: after one submission and any start(), pause(), stop() and ticks,
\* dx = playingVelocity * timeSinceStart / 1000, and every note is placed at
\* x = playerLinePos + playingVelocity * (its start time) / 1000, so that a
\* note is at the player line exactly when the elapsed time is its start
\* time.
C26_ScrollFollowsClock ==
    submissions = 1 =>
        /\ dx = velocity * timeSinceStart
        /\ \A i \in 1..Len(visualNotes) :
                /\ visualNotes[i].x = canvasWidth \div 2 + velocity * noteTime[i]
                /\ (visualNotes[i].x - dx = canvasWidth \div 2)
                        <=> (timeSinceStart = noteTime[i])

====
